---- MODULE Spec2Model ----
(***************************************************************************)
(* Edge Deployment operator (EdgeDeploy): the four HTTP handlers           *)
(* create_cluster, cluster_status, seal_secret, delete_sealed_secret and   *)
(* the helpers they call.  Every handler is an async function: a state of  *)
(* a request is the collaborator call it is awaiting (pc), and one action  *)
(* is the resolution of that call followed by the synchronous code up to   *)
(* the start of the next awaited call.                                     *)
(***************************************************************************)
EXTENDS Integers, Sequences, FiniteSets, TLC

VARIABLES
    pc,        \* per request: the collaborator call in flight, "idle" or "done"
    req,       \* per request: route, body and params
    loc,       \* per request: the handler's local variables
    out,       \* per request: what was sent on res and what was passed to next
    log,       \* per request: the collaborator calls, in order (call/ret/throw)
    co,        \* per request: the Checkout object the handler holds
    objects,   \* ConfigDB: the minted object uuids with their class
    configs,   \* ConfigDB: config records, keyed by <<app, uuid>>
    hosted,    \* Git service: paths of the created repositories
    remote,    \* Git service: url -> pushed tree
    stable     \* per request: no registry/repository mutation since it arrived

vars == <<pc, req, loc, out, log, co, objects, configs, hosted, remote, stable>>

-----------------------------------------------------------------------------
(* Bounds and value universes *)

NumReqs == 2
MaxUuid == 3
NumGit == 2

Reqs == 1..NumReqs
Uuids == 1..MaxUuid

Names == {"cell1", "cell2"}
Namespaces == {"absent", "ns1"}
Certs == {"PEM"}
SourceA == <<"o", "r", "g", "/", "r", "e", "p", "o", "A">>
SourceLists == {<<>>, <<SourceA>>}
GitNames == 1..NumGit
SecretNames == {"s1", "s2"}
Keys == {"bearerToken", "username", "password"}
SealerCodes == {200, 404, 500}
GitStatuses == {200, 409, 500}

FLUX_NS == "flux-system"
DefaultNamespace == "fplus-edge"
Group == "edge"
SeedName == "seed0"
SeedUuid == CHOOSE u \in Uuids : \A v \in Uuids : u <= v

-----------------------------------------------------------------------------
(* Values *)

NoUrl == <<>>
RepoPath(name) == <<Group, name>>
RepoUrl(path) == <<"git">> \o path

NoErr == [kind |-> "none", status |-> 0]
CollabErr == [kind |-> "collab", status |-> 0]
TypeError == [kind |-> "TypeError", status |-> 0]
GitCreateErr(st) == [kind |-> "GitCreate", status |-> st]

NoBody == [kind |-> "none", uuid |-> 0, flux |-> NoUrl, ready |-> FALSE]
EmptyBody == [kind |-> "empty", uuid |-> 0, flux |-> NoUrl, ready |-> FALSE]
CreatedBody(u, url) == [kind |-> "json", uuid |-> u, flux |-> url, ready |-> FALSE]
ReadyBody(b) == [kind |-> "json", uuid |-> 0, flux |-> NoUrl, ready |-> b]

NoOut == [status |-> 0, body |-> NoBody, sent |-> 0, err |-> NoErr, nexts |-> 0]

(* A GitRepository manifest of the tree: not listed, listed but reading back
   absent, a document without spec.secretRef.name, or one naming a secret. *)
GitDocs == {"unlisted", "absent", "noref"} \cup SecretNames

(* A SealedSecret manifest of the tree. *)
NoSecret == [shape |-> "absent", keys |-> {}]
SecretDocs == {NoSecret, [shape |-> "nospec", keys |-> {}], [shape |-> "noenc", keys |-> {}]}
              \cup {[shape |-> "ok", keys |-> k] : k \in SUBSET Keys}

EmptyTree == [files |-> {}, manifests |-> {}, git |-> [g \in GitNames |-> "unlisted"],
              sealed |-> [s \in SecretNames |-> NoSecret]]
Trees == [files : {{}}, manifests : {{}}, git : [GitNames -> GitDocs], sealed : [SecretNames -> SecretDocs]]

NoCheckout == [state |-> "none", url |-> NoUrl, tree |-> EmptyTree,
               commits |-> <<>>, disposed |-> 0]

NoReq == [kind |-> "none", name |-> "", hasSources |-> FALSE, sources |-> <<>>,
          namespace |-> "absent", kubeseal_cert |-> "", cluster |-> 0, dryrun |-> FALSE]
NoLoc == [ok |-> "unset", git_status |-> 0, repo |-> NoUrl, uuid |-> 0,
          info |-> "unset", flux |-> NoUrl, repos |-> <<>>, pending |-> {},
          refs |-> <<>>, secrets |-> <<>>, idx |-> 0, st |-> 0]

SourceOpts == {[has |-> FALSE, list |-> <<>>]} \cup {[has |-> TRUE, list |-> s] : s \in SourceLists}
CreateReqs == {[NoReq EXCEPT !.kind = "create_cluster", !.name = n, !.hasSources = so.has,
                             !.sources = so.list, !.namespace = ns, !.kubeseal_cert = c] :
                 n \in Names, so \in SourceOpts, ns \in Namespaces, c \in Certs}
StatusReqs == {[NoReq EXCEPT !.kind = "cluster_status", !.cluster = u] : u \in Uuids}
SealReqs == {[NoReq EXCEPT !.kind = k, !.cluster = u, !.dryrun = d] :
               k \in {"seal_secret", "delete_sealed_secret"}, u \in Uuids, d \in BOOLEAN}

-----------------------------------------------------------------------------
(* Bookkeeping shared by the actions *)

Call(op) == <<op, "call">>
Ret(op) == <<op, "ret">>
Thr(op) == <<op, "throw">>


(* The handler awaits the next collaborator call: the events of the resolved
   call are logged, then the start of the next one. *)
Await(r, evs, op) ==
    /\ pc' = [pc EXCEPT ![r] = op]
    /\ log' = [log EXCEPT ![r] = @ \o evs \o <<Call(op)>>]
    /\ out' = out

(* res.status(st).json(body) / res.status(st).end(), then the handler returns. *)
Send(r, evs, st, body) ==
    /\ pc' = [pc EXCEPT ![r] = "done"]
    /\ log' = [log EXCEPT ![r] = @ \o evs]
    /\ out' = [out EXCEPT ![r].status = st, ![r].body = body, ![r].sent = @ + 1]

(* wrap: the handler's promise rejected with e, which goes to next(e). *)
wrap(r, evs, e) ==
    /\ pc' = [pc EXCEPT ![r] = "done"]
    /\ log' = [log EXCEPT ![r] = @ \o evs]
    /\ out' = [out EXCEPT ![r].err = e, ![r].nexts = @ + 1]

(* Any write to the registry or to a repository ends every request's
   mutation-free window. *)
Mutated == stable' = [r \in Reqs |-> FALSE]

PutConfig(app, obj, val) ==
    [k \in DOMAIN configs \cup {<<app, obj>>} |->
        IF k = <<app, obj>> THEN val ELSE configs[k]]

(* line 174: source.replace("/", "."), which replaces the first "/" only *)
RECURSIVE replace(_, _, _)
replace(source, a, b) ==
    IF source = <<>> THEN <<>>
    ELSE IF Head(source) = a THEN <<b>> \o Tail(source)
    ELSE <<Head(source)>> \o replace(Tail(source), a, b)

(* The Git service refuses to create a path that exists. *)
GitHostStatuses(path) == {st \in GitStatuses : st # 200 \/ path \notin hosted}

FreshUuids == {u \in Uuids : \A o \in objects : o.uuid # u}

-----------------------------------------------------------------------------
(* A request arrives on one of the four routes; the handler runs up to its
   first await, the Auth.check_acl call. *)
Arrive(r, Q) ==
    /\ pc[r] = "idle"
    /\ \E q \in Q : req' = [req EXCEPT ![r] = q]
    /\ pc' = [pc EXCEPT ![r] = "check_acl"]
    /\ log' = [log EXCEPT ![r] = <<Call("check_acl")>>]
    /\ stable' = [stable EXCEPT ![r] = TRUE]
    /\ UNCHANGED <<loc, out, co, objects, configs, hosted, remote>>

Receive(r) ==
    \/ Arrive(r, CreateReqs)
    \/ Arrive(r, StatusReqs)
    \/ Arrive(r, SealReqs)

-----------------------------------------------------------------------------
(* create_cluster *)

(* create_cluster_acl with the return after the 403 forgotten *)
create_cluster_acl_noreturn(r) ==
    /\ pc[r] = "check_acl" /\ req[r].kind = "create_cluster"
    /\ \/ /\ loc' = [loc EXCEPT ![r].ok = "false"]
          /\ pc' = [pc EXCEPT ![r] = "create_repo"]
          /\ log' = [log EXCEPT ![r] = @ \o <<Ret("check_acl"), Call("create_repo")>>]
          /\ out' = [out EXCEPT ![r].status = 403, ![r].body = EmptyBody, ![r].sent = @ + 1]
       \/ /\ loc' = [loc EXCEPT ![r].ok = "true"]
          /\ Await(r, <<Ret("check_acl")>>, "create_repo")
    /\ UNCHANGED <<req, co, objects, configs, hosted, remote, stable>>

create_cluster_acl(r) ==
    /\ pc[r] = "check_acl" /\ req[r].kind = "create_cluster"
    /\ \/ /\ wrap(r, <<Thr("check_acl")>>, CollabErr)
          /\ loc' = loc
       \/ /\ loc' = [loc EXCEPT ![r].ok = "false"]
          /\ Send(r, <<Ret("check_acl")>>, 403, EmptyBody)
       \/ /\ loc' = [loc EXCEPT ![r].ok = "true"]
          /\ Await(r, <<Ret("check_acl")>>, "create_repo")
    /\ UNCHANGED <<req, co, objects, configs, hosted, remote, stable>>

(* create_repo testing res.status >= 500 instead of res.status != 200 *)
create_repo_only5xx(r) ==
    /\ pc[r] = "create_repo"
    /\ LET path == RepoPath(req[r].name) IN
       \E st \in GitHostStatuses(path) :
            IF st >= 500
            THEN /\ wrap(r, <<Ret("create_repo")>>, GitCreateErr(st))
                 /\ loc' = [loc EXCEPT ![r].git_status = st]
            ELSE /\ loc' = [loc EXCEPT ![r].git_status = st]
                 /\ Await(r, <<Ret("create_repo")>>, "res_json")
    /\ UNCHANGED <<req, co, objects, configs, hosted, remote, stable>>

(* create_repo: the POST /git/<group>/<name> resolved; a 200 response is read
   with res.json() *)
create_repo(r) ==
    /\ pc[r] = "create_repo"
    /\ LET path == RepoPath(req[r].name) IN
       \/ /\ wrap(r, <<Thr("create_repo")>>, CollabErr)
          /\ UNCHANGED <<loc, hosted, remote, stable>>
       \/ \E st \in GitHostStatuses(path) :
            IF st # 200
            THEN /\ wrap(r, <<Ret("create_repo")>>, GitCreateErr(st))
                 /\ loc' = [loc EXCEPT ![r].git_status = st]
                 /\ UNCHANGED <<hosted, remote, stable>>
            ELSE /\ hosted' = hosted \cup {path}
                 /\ remote' = [u \in DOMAIN remote \cup {RepoUrl(path)} |->
                                  IF u = RepoUrl(path) THEN EmptyTree ELSE remote[u]]
                 /\ loc' = [loc EXCEPT ![r].git_status = st]
                 /\ Mutated
                 /\ Await(r, <<Ret("create_repo")>>, "res_json")
    /\ UNCHANGED <<req, co, objects, configs>>

(* create_repo: res.json() resolved with the repository; create_cluster_objects
   starts cdb.create_object *)
create_repo_json(r) ==
    /\ pc[r] = "res_json"
    /\ \/ /\ wrap(r, <<Thr("res_json")>>, CollabErr)
          /\ loc' = loc
       \/ /\ loc' = [loc EXCEPT ![r].repo = RepoUrl(RepoPath(req[r].name))]
          /\ Await(r, <<Ret("res_json")>>, "create_object")
    /\ UNCHANGED <<req, co, objects, configs, hosted, remote, stable>>

(* create_object followed by the Cluster record's put_config, the Info
   record's put_config forgotten *)
create_object_clusterfirst(r) ==
    /\ pc[r] = "create_object"
    /\ \/ /\ wrap(r, <<Thr("create_object")>>, CollabErr)
          /\ UNCHANGED <<loc, objects, stable>>
       \/ /\ FreshUuids # {}
          /\ LET u == CHOOSE x \in FreshUuids : \A y \in FreshUuids : x <= y IN
               /\ objects' = objects \cup {[uuid |-> u, class |-> "Cluster"]}
               /\ loc' = [loc EXCEPT ![r].uuid = u]
          /\ Mutated
          /\ Await(r, <<Ret("create_object")>>, "put_config_cluster")
    /\ UNCHANGED <<req, co, configs, hosted, remote>>

(* create_cluster_objects: cdb.create_object resolved *)
create_object(r) ==
    /\ pc[r] = "create_object"
    /\ \/ /\ wrap(r, <<Thr("create_object")>>, CollabErr)
          /\ UNCHANGED <<loc, objects, stable>>
       \/ /\ FreshUuids # {}
          /\ LET u == CHOOSE x \in FreshUuids : \A y \in FreshUuids : x <= y IN
               /\ objects' = objects \cup {[uuid |-> u, class |-> "Cluster"]}
               /\ loc' = [loc EXCEPT ![r].uuid = u]
          /\ Mutated
          /\ Await(r, <<Ret("create_object")>>, "put_config_info")
    /\ UNCHANGED <<req, co, configs, hosted, remote>>

(* put_config_info with the Cluster record's put_config left out *)
put_config_info_skip(r) ==
    /\ pc[r] = "put_config_info"
    /\ configs' = PutConfig("Info", loc[r].uuid, [name |-> req[r].name])
    /\ Mutated
    /\ Await(r, <<Ret("put_config_info")>>, "init")
    /\ UNCHANGED <<req, loc, co, objects, hosted, remote>>

(* create_cluster_objects: put_config(Info) resolved *)
put_config_info(r) ==
    /\ pc[r] = "put_config_info"
    /\ \/ /\ wrap(r, <<Thr("put_config_info")>>, CollabErr)
          /\ UNCHANGED <<configs, stable>>
       \/ /\ configs' = PutConfig("Info", loc[r].uuid, [name |-> req[r].name])
          /\ Mutated
          /\ Await(r, <<Ret("put_config_info")>>, "put_config_cluster")
    /\ UNCHANGED <<req, loc, co, objects, hosted, remote>>

(* put_config_cluster with the identity kept in a field of the operator that
   every request overwrites: the record goes to the identity minted last *)
put_config_cluster_shared(r) ==
    /\ pc[r] = "put_config_cluster"
    /\ \/ /\ wrap(r, <<Thr("put_config_cluster")>>, CollabErr)
          /\ UNCHANGED <<configs, stable>>
       \/ /\ LET last == CHOOSE o \in objects : \A x \in objects : x.uuid <= o.uuid IN
             configs' = PutConfig("Cluster", last.uuid,
                 [flux |-> loc[r].repo,
                  namespace |-> IF req[r].namespace = "absent" THEN DefaultNamespace
                                ELSE req[r].namespace,
                  kubeseal_cert |-> req[r].kubeseal_cert])
          /\ Mutated
          /\ Await(r, <<Ret("put_config_cluster")>>, "init")
    /\ UNCHANGED <<req, loc, co, objects, hosted, remote>>

(* create_cluster_objects: put_config(Cluster) resolved; populate_cluster_repo
   starts Checkout.init *)
put_config_cluster(r) ==
    /\ pc[r] = "put_config_cluster"
    /\ \/ /\ wrap(r, <<Thr("put_config_cluster")>>, CollabErr)
          /\ UNCHANGED <<configs, stable>>
       \/ /\ configs' = PutConfig("Cluster", loc[r].uuid,
                 [flux |-> loc[r].repo,
                  namespace |-> IF req[r].namespace = "absent" THEN DefaultNamespace
                                ELSE req[r].namespace,
                  kubeseal_cert |-> req[r].kubeseal_cert])
          /\ Mutated
          /\ Await(r, <<Ret("put_config_cluster")>>, "init")
    /\ UNCHANGED <<req, loc, co, objects, hosted, remote>>

(* populate_init starting the commit without awaiting write_file *)
populate_init_nowait(r) ==
    /\ pc[r] = "init"
    /\ \/ /\ wrap(r, <<Thr("init")>>, CollabErr)
          /\ co' = co
       \/ /\ co' = [co EXCEPT ![r] = [NoCheckout EXCEPT !.state = "open", !.url = loc[r].repo,
                                                         !.tree.files = {"README.md"}]]
          /\ Await(r, <<Ret("init"), Call("write_file")>>, "commit")
    /\ UNCHANGED <<req, loc, objects, configs, hosted, remote, stable>>

(* populate_cluster_repo: Checkout.init resolved *)
populate_init(r) ==
    /\ pc[r] = "init"
    /\ \/ /\ wrap(r, <<Thr("init")>>, CollabErr)
          /\ co' = co
       \/ /\ co' = [co EXCEPT ![r] = [NoCheckout EXCEPT !.state = "open", !.url = loc[r].repo]]
          /\ Await(r, <<Ret("init")>>, "write_file")
    /\ UNCHANGED <<req, loc, objects, configs, hosted, remote, stable>>

(* populate_cluster_repo: co.write_file("README.md") resolved *)
populate_write_file(r) ==
    /\ pc[r] = "write_file"
    /\ \/ /\ wrap(r, <<Thr("write_file")>>, CollabErr)
          /\ co' = co
       \/ /\ co' = [co EXCEPT ![r].tree.files = @ \cup {"README.md"}]
          /\ Await(r, <<Ret("write_file")>>, "commit")
    /\ UNCHANGED <<req, loc, objects, configs, hosted, remote, stable>>

(* populate_commit with co.push() started and not awaited: create_cluster
   answers 201 while the push is in flight *)
populate_commit_nopushwait(r) ==
    /\ pc[r] = "commit"
    /\ \/ /\ wrap(r, <<Thr("commit")>>, CollabErr)
          /\ co' = co
       \/ /\ co' = [co EXCEPT ![r].commits =
                        Append(@, [msg |-> "Add README.", tree |-> co[r].tree])]
          /\ IF ~req[r].hasSources
             THEN Send(r, <<Ret("commit"), Call("push")>>, 201,
                       CreatedBody(loc[r].uuid, loc[r].repo))
             ELSE Await(r, <<Ret("commit")>>, "service_url")
    /\ UNCHANGED <<req, loc, objects, configs, hosted, remote, stable>>

(* populate_commit never calling setup_repo_links: the push follows the README
   commit whatever the request's sources *)
populate_commit_nolinks(r) ==
    /\ pc[r] = "commit"
    /\ \/ /\ wrap(r, <<Thr("commit")>>, CollabErr)
          /\ co' = co
       \/ /\ co' = [co EXCEPT ![r].commits =
                        Append(@, [msg |-> "Add README.", tree |-> co[r].tree])]
          /\ Await(r, <<Ret("commit")>>, "push")
    /\ UNCHANGED <<req, loc, objects, configs, hosted, remote, stable>>

(* populate_cluster_repo: co.commit("Add README.") resolved; setup_repo_links
   returns at once without sources, else awaits Discovery.service_url *)
populate_commit(r) ==
    /\ pc[r] = "commit"
    /\ \/ /\ wrap(r, <<Thr("commit")>>, CollabErr)
          /\ co' = co
       \/ /\ co' = [co EXCEPT ![r].commits =
                        Append(@, [msg |-> "Add README.", tree |-> co[r].tree])]
          /\ IF ~req[r].hasSources
             THEN Await(r, <<Ret("commit")>>, "push")
             ELSE Await(r, <<Ret("commit")>>, "service_url")
    /\ UNCHANGED <<req, loc, objects, configs, hosted, remote, stable>>

(* setup_repo_links: service_url resolved; the next statement calls
   this.write_sealed_secret, which EdgeDeploy does not define: a TypeError *)
setup_repo_links(r) ==
    /\ pc[r] = "service_url"
    /\ \/ wrap(r, <<Thr("service_url")>>, CollabErr)
       \/ wrap(r, <<Ret("service_url")>>, TypeError)
    /\ UNCHANGED <<req, loc, co, objects, configs, hosted, remote, stable>>

(* populate_push undoing the registration when the push fails *)
populate_push_rollback(r) ==
    /\ pc[r] = "push"
    /\ \/ /\ wrap(r, <<Thr("push")>>, CollabErr)
          /\ configs' = [k \in {x \in DOMAIN configs : x[2] # loc[r].uuid} |-> configs[k]]
          /\ Mutated
          /\ remote' = remote
       \/ /\ remote' = [remote EXCEPT ![co[r].url] = co[r].commits[Len(co[r].commits)].tree]
          /\ Mutated
          /\ Send(r, <<Ret("push")>>, 201, CreatedBody(loc[r].uuid, loc[r].repo))
          /\ configs' = configs
    /\ UNCHANGED <<req, loc, co, objects, hosted>>

(* populate_cluster_repo: co.push() resolved; create_cluster answers 201 *)
populate_push(r) ==
    /\ pc[r] = "push"
    /\ \/ /\ wrap(r, <<Thr("push")>>, CollabErr)
          /\ UNCHANGED <<remote, stable>>
       \/ /\ remote' = [remote EXCEPT ![co[r].url] = co[r].commits[Len(co[r].commits)].tree]
          /\ Mutated
          /\ Send(r, <<Ret("push")>>, 201, CreatedBody(loc[r].uuid, loc[r].repo))
    /\ UNCHANGED <<req, loc, co, objects, configs, hosted>>

-----------------------------------------------------------------------------
(* seal_secret and delete_sealed_secret *)

seal_secret_acl(r) ==
    /\ pc[r] = "check_acl" /\ req[r].kind = "seal_secret"
    /\ \/ /\ wrap(r, <<Thr("check_acl")>>, CollabErr)
          /\ loc' = loc
       \/ /\ loc' = [loc EXCEPT ![r].ok = "false"]
          /\ Send(r, <<Ret("check_acl")>>, 403, EmptyBody)
       \/ /\ loc' = [loc EXCEPT ![r].ok = "true"]
          /\ Await(r, <<Ret("check_acl")>>, "seal_secret")
    /\ UNCHANGED <<req, co, objects, configs, hosted, remote, stable>>

(* seal_secret answering 200 whatever the sealer returned *)
seal_secret_always200(r) ==
    /\ pc[r] = "seal_secret"
    /\ \E st \in SealerCodes :
         /\ loc' = [loc EXCEPT ![r].st = st]
         /\ Send(r, <<Ret("seal_secret")>>, 200, EmptyBody)
    /\ UNCHANGED <<req, co, objects, configs, hosted, remote, stable>>

seal_secret(r) ==
    /\ pc[r] = "seal_secret"
    /\ \/ /\ wrap(r, <<Thr("seal_secret")>>, CollabErr)
          /\ loc' = loc
       \/ \E st \in SealerCodes :
            /\ loc' = [loc EXCEPT ![r].st = st]
            /\ Send(r, <<Ret("seal_secret")>>, st, EmptyBody)
    /\ UNCHANGED <<req, co, objects, configs, hosted, remote, stable>>

delete_sealed_secret_acl(r) ==
    /\ pc[r] = "check_acl" /\ req[r].kind = "delete_sealed_secret"
    /\ \/ /\ wrap(r, <<Thr("check_acl")>>, CollabErr)
          /\ loc' = loc
       \/ /\ loc' = [loc EXCEPT ![r].ok = "false"]
          /\ Send(r, <<Ret("check_acl")>>, 403, EmptyBody)
       \/ /\ loc' = [loc EXCEPT ![r].ok = "true"]
          /\ Await(r, <<Ret("check_acl")>>, "delete_secret")
    /\ UNCHANGED <<req, co, objects, configs, hosted, remote, stable>>

delete_sealed_secret(r) ==
    /\ pc[r] = "delete_secret"
    /\ \/ /\ wrap(r, <<Thr("delete_secret")>>, CollabErr)
          /\ loc' = loc
       \/ \E st \in SealerCodes :
            /\ loc' = [loc EXCEPT ![r].st = st]
            /\ Send(r, <<Ret("delete_secret")>>, st, EmptyBody)
    /\ UNCHANGED <<req, co, objects, configs, hosted, remote, stable>>

-----------------------------------------------------------------------------
(* cluster_status and cluster_has_git_creds *)

(* Every order in which list_manifests may return the listed names *)
Listings(S) == {q \in [1..Cardinality(S) -> S] : \A x \in S : \E i \in DOMAIN q : q[i] = x}

(* line 89 with || in place of && *)
HasCreds_anykey(enc) == ("bearerToken" \in enc) \/ ("username" \in enc \/ "password" \in enc)

(* line 89: the accepted credential shapes of encryptedData *)
HasCreds(enc) == ("bearerToken" \in enc) \/ ("username" \in enc /\ "password" \in enc)

(* cluster_status pushing the checkout before it disposes of it *)
Ready_pushes(r, evs, ready) ==
    /\ co' = [co EXCEPT ![r].state = "disposed", ![r].disposed = @ + 1]
    /\ Send(r, evs \o <<Call("push"), Ret("push")>>, 200, ReadyBody(ready))

(* cluster_has_git_creds returned ready: co.dispose(), then 200 {ready} *)
Ready(r, evs, ready) ==
    /\ co' = [co EXCEPT ![r].state = "disposed", ![r].disposed = @ + 1]
    /\ Send(r, evs, 200, ReadyBody(ready))

(* cluster_has_git_creds or an awaited call rejected: cluster_status rejects *)
Reject(r, evs, e) ==
    /\ co' = co
    /\ wrap(r, evs, e)

cluster_status_acl(r) ==
    /\ pc[r] = "check_acl" /\ req[r].kind = "cluster_status"
    /\ \/ /\ wrap(r, <<Thr("check_acl")>>, CollabErr)
          /\ loc' = loc
       \/ /\ loc' = [loc EXCEPT ![r].ok = "false"]
          /\ Send(r, <<Ret("check_acl")>>, 403, EmptyBody)
       \/ /\ loc' = [loc EXCEPT ![r].ok = "true"]
          /\ Await(r, <<Ret("check_acl")>>, "get_config")
    /\ UNCHANGED <<req, co, objects, configs, hosted, remote, stable>>

(* cluster_status_get_config with the return after the 404 forgotten *)
cluster_status_get_config_noreturn(r) ==
    /\ pc[r] = "get_config"
    /\ LET key == <<"Cluster", req[r].cluster>> IN
       \/ /\ wrap(r, <<Thr("get_config")>>, CollabErr)
          /\ loc' = loc
       \/ /\ key \notin DOMAIN configs
          /\ loc' = [loc EXCEPT ![r].info = "absent"]
          /\ pc' = [pc EXCEPT ![r] = "clone"]
          /\ log' = [log EXCEPT ![r] = @ \o <<Ret("get_config"), Call("clone")>>]
          /\ out' = [out EXCEPT ![r].status = 404, ![r].body = EmptyBody, ![r].sent = @ + 1]
       \/ /\ key \in DOMAIN configs
          /\ loc' = [loc EXCEPT ![r].info = "found", ![r].flux = configs[key].flux]
          /\ Await(r, <<Ret("get_config")>>, "clone")
    /\ UNCHANGED <<req, co, objects, configs, hosted, remote, stable>>

(* cluster_status_get_config without the 404 test: it clones info.flux *)
cluster_status_get_config_no404(r) ==
    /\ pc[r] = "get_config"
    /\ LET key == <<"Cluster", req[r].cluster>> IN
       \/ /\ key \notin DOMAIN configs
          /\ loc' = [loc EXCEPT ![r].info = "absent"]
          /\ Await(r, <<Ret("get_config")>>, "clone")
       \/ /\ key \in DOMAIN configs
          /\ loc' = [loc EXCEPT ![r].info = "found", ![r].flux = configs[key].flux]
          /\ Await(r, <<Ret("get_config")>>, "clone")
    /\ UNCHANGED <<req, co, objects, configs, hosted, remote, stable>>

(* ConfigDB.get_config(Cluster, cluster) resolved *)
cluster_status_get_config(r) ==
    /\ pc[r] = "get_config"
    /\ LET key == <<"Cluster", req[r].cluster>> IN
       \/ /\ wrap(r, <<Thr("get_config")>>, CollabErr)
          /\ loc' = loc
       \/ /\ key \notin DOMAIN configs
          /\ loc' = [loc EXCEPT ![r].info = "absent"]
          /\ Send(r, <<Ret("get_config")>>, 404, EmptyBody)
       \/ /\ key \in DOMAIN configs
          /\ loc' = [loc EXCEPT ![r].info = "found", ![r].flux = configs[key].flux]
          /\ Await(r, <<Ret("get_config")>>, "clone")
    /\ UNCHANGED <<req, co, objects, configs, hosted, remote, stable>>

(* Checkout.clone resolved; cluster_has_git_creds starts list_manifests *)
cluster_status_clone(r) ==
    /\ pc[r] = "clone"
    /\ \/ Reject(r, <<Thr("clone")>>, CollabErr)
       \/ /\ loc[r].flux \in DOMAIN remote
          /\ co' = [co EXCEPT ![r] = [NoCheckout EXCEPT !.state = "open", !.url = loc[r].flux,
                                                         !.tree = remote[loc[r].flux]]]
          /\ Await(r, <<Ret("clone")>>, "list_manifests")
    /\ UNCHANGED <<req, loc, objects, configs, hosted, remote, stable>>

(* list_manifests resolved; repos.map starts one read_manifest per listed
   GitRepository, all at once (Promise.all) *)
cluster_has_git_creds_list(r) ==
    /\ pc[r] = "list_manifests"
    /\ \/ /\ Reject(r, <<Thr("list_manifests")>>, CollabErr)
          /\ loc' = loc
       \/ \E repos \in Listings({g \in GitNames : co[r].tree.git[g] # "unlisted"}) :
            IF Len(repos) = 0
            THEN /\ Ready(r, <<Ret("list_manifests")>>, TRUE)
                 /\ loc' = loc
            ELSE /\ loc' = [loc EXCEPT ![r].repos = repos, ![r].pending = DOMAIN repos,
                                        ![r].refs = [i \in DOMAIN repos |-> "noref"]]
                 /\ pc' = [pc EXCEPT ![r] = "read_manifest"]
                 /\ log' = [log EXCEPT ![r] = @ \o <<Ret("list_manifests")>>
                                                \o [i \in DOMAIN repos |-> Call("read_manifest")]]
                 /\ UNCHANGED <<out, co>>
    /\ UNCHANGED <<req, objects, configs, hosted, remote, stable>>

(* one of the GitRepository reads resolved; when the last one has, the names
   are filtered and the loop awaits the first SealedSecret read *)
cluster_has_git_creds_read(r) ==
    /\ pc[r] = "read_manifest"
    /\ \E i \in loc[r].pending :
         LET gitr == co[r].tree.git[loc[r].repos[i]]
             refs == [loc[r].refs EXCEPT ![i] = gitr]
             secrets == SelectSeq(refs, LAMBDA x : x # "noref")
         IN
         \/ /\ Reject(r, <<Thr("read_manifest")>>, CollabErr)
            /\ loc' = loc
         \/ /\ gitr = "absent"
            /\ Reject(r, <<Ret("read_manifest")>>, TypeError)
            /\ loc' = loc
         \/ /\ gitr # "absent"
            /\ loc' = [loc EXCEPT ![r].refs = refs, ![r].pending = @ \ {i},
                                   ![r].secrets = IF loc[r].pending = {i} THEN secrets ELSE <<>>,
                                   ![r].idx = IF loc[r].pending = {i} /\ Len(secrets) > 0
                                              THEN 1 ELSE 0]
            /\ IF loc[r].pending # {i}
               THEN /\ pc' = pc
                    /\ log' = [log EXCEPT ![r] = Append(@, Ret("read_manifest"))]
                    /\ UNCHANGED <<out, co>>
               ELSE IF Len(secrets) = 0
               THEN Ready(r, <<Ret("read_manifest")>>, TRUE)
               ELSE /\ Await(r, <<Ret("read_manifest")>>, "read_sealed")
                    /\ co' = co
    /\ UNCHANGED <<req, objects, configs, hosted, remote, stable>>

(* the SealedSecret read of secrets[idx] resolved *)
cluster_has_git_creds_sealed(r) ==
    /\ pc[r] = "read_sealed"
    /\ LET sealed == co[r].tree.sealed[loc[r].secrets[loc[r].idx]] IN
       \/ /\ Reject(r, <<Thr("read_sealed")>>, CollabErr)
          /\ loc' = loc
       \/ /\ sealed.shape = "absent"
          /\ Ready(r, <<Ret("read_sealed")>>, FALSE)
          /\ loc' = loc
       \/ /\ sealed.shape \in {"nospec", "noenc"}
          /\ Reject(r, <<Ret("read_sealed")>>, TypeError)
          /\ loc' = loc
       \/ /\ sealed.shape = "ok"
          /\ IF ~HasCreds(sealed.keys)
             THEN /\ Ready(r, <<Ret("read_sealed")>>, FALSE)
                  /\ loc' = loc
             ELSE IF loc[r].idx < Len(loc[r].secrets)
             THEN /\ Await(r, <<Ret("read_sealed")>>, "read_sealed")
                  /\ loc' = [loc EXCEPT ![r].idx = @ + 1]
                  /\ co' = co
             ELSE /\ Ready(r, <<Ret("read_sealed")>>, TRUE)
                  /\ loc' = loc
    /\ UNCHANGED <<req, objects, configs, hosted, remote, stable>>

-----------------------------------------------------------------------------
(* The world at start-up: the operator holds no request; the registry and
   the Git service hold one cluster registered earlier, whose flux repository
   has some content. *)

ReadmeTree == [EmptyTree EXCEPT !.files = {"README.md"}]
SeedTrees == {ReadmeTree,
              [ReadmeTree EXCEPT !.git[1] = "s1",
                                 !.sealed["s1"] = [shape |-> "ok", keys |-> {"bearerToken"}]],
              [ReadmeTree EXCEPT !.git[1] = "s1"],
              [ReadmeTree EXCEPT !.git[1] = "s1", !.git[2] = "s2",
                                 !.sealed["s1"] = [shape |-> "ok", keys |-> {"bearerToken"}],
                                 !.sealed["s2"] = [shape |-> "ok", keys |-> {"username", "password"}]]}

InitWorld(trees) ==
    /\ pc = [r \in Reqs |-> "idle"]
    /\ req = [r \in Reqs |-> NoReq]
    /\ loc = [r \in Reqs |-> NoLoc]
    /\ out = [r \in Reqs |-> NoOut]
    /\ log = [r \in Reqs |-> <<>>]
    /\ co = [r \in Reqs |-> NoCheckout]
    /\ stable = [r \in Reqs |-> FALSE]
    /\ objects = {[uuid |-> SeedUuid, class |-> "Cluster"]}
    /\ hosted = {RepoPath(SeedName)}
    /\ configs = (<<"Info", SeedUuid>> :> [name |-> SeedName])
                  @@ (<<"Cluster", SeedUuid>> :>
                        [flux |-> RepoUrl(RepoPath(SeedName)), namespace |-> DefaultNamespace,
                         kubeseal_cert |-> "PEM"])
    /\ \E t \in trees : remote = (RepoUrl(RepoPath(SeedName)) :> t)

Init == InitWorld(SeedTrees)

Next ==
    \E r \in Reqs :
       \/ Receive(r)
       \/ create_cluster_acl(r)
       \/ create_repo(r)
       \/ create_repo_json(r)
       \/ create_object(r)
       \/ put_config_info(r)
       \/ put_config_cluster(r)
       \/ populate_init(r)
       \/ populate_write_file(r)
       \/ populate_commit(r)
       \/ setup_repo_links(r)
       \/ populate_push(r)
       \/ cluster_status_acl(r)
       \/ cluster_status_get_config(r)
       \/ cluster_status_clone(r)
       \/ cluster_has_git_creds_list(r)
       \/ cluster_has_git_creds_read(r)
       \/ cluster_has_git_creds_sealed(r)
       \/ seal_secret_acl(r)
       \/ seal_secret(r)
       \/ delete_sealed_secret_acl(r)
       \/ delete_sealed_secret(r)

Spec == Init /\ [][Next]_vars

(* The readiness scan alone: one cluster_status request over every tree the
   flux repository may hold. *)
ScanReq == CHOOSE r \in Reqs : \A q \in Reqs : r <= q

InitScan == InitWorld(Trees)

ReceiveStatus(r) == Arrive(r, {q \in StatusReqs : q.cluster = SeedUuid})

NextScan ==
    \/ ReceiveStatus(ScanReq)
    \/ cluster_status_acl(ScanReq)
    \/ cluster_status_get_config(ScanReq)
    \/ cluster_status_clone(ScanReq)
    \/ cluster_has_git_creds_list(ScanReq)
    \/ cluster_has_git_creds_read(ScanReq)
    \/ cluster_has_git_creds_sealed(ScanReq)

SpecScan == InitScan /\ [][NextScan]_vars

(* Two create_cluster requests side by side, with two sealing certificates to
   tell the requests' records apart. *)
PairCerts == {"PEM", "PEM2"}
PairReqs == {[NoReq EXCEPT !.kind = "create_cluster", !.name = n, !.hasSources = so.has,
                           !.sources = so.list, !.namespace = ns, !.kubeseal_cert = c] :
               n \in Names, so \in SourceOpts, ns \in Namespaces, c \in PairCerts}

InitPair == InitWorld({ReadmeTree})

ReceiveCreate(r) == Arrive(r, PairReqs)

NextPair ==
    \E r \in Reqs :
       \/ ReceiveCreate(r)
       \/ create_cluster_acl(r)
       \/ create_repo(r)
       \/ create_repo_json(r)
       \/ create_object(r)
       \/ put_config_info(r)
       \/ put_config_cluster(r)
       \/ populate_init(r)
       \/ populate_write_file(r)
       \/ populate_commit(r)
       \/ setup_repo_links(r)
       \/ populate_push(r)

SpecPair == InitPair /\ [][NextPair]_vars


-----------------------------------------------------------------------------
(* Properties *)

Has(r, e) == \E i \in DOMAIN log[r] : log[r][i] = e
Count(r, e) == Cardinality({i \in DOMAIN log[r] : log[r][i] = e})
(* every occurrence of b in the log of r comes after an occurrence of a *)
Precedes(r, a, b) ==
    \A j \in DOMAIN log[r] : log[r][j] = b => \E i \in 1..(j - 1) : log[r][i] = a
NoCollaboratorFailed(r) == \A i \in DOMAIN log[r] : log[r][i][2] # "throw"
Answered(r, st, body) == out[r] = [NoOut EXCEPT !.status = st, !.body = body, !.sent = 1]

(* C1: a request whose check_acl returned false, on any of the four routes,
   ends with status 403, and check_acl is the only collaborator call it made:
   no repository, registry, checkout or sealer call. *)
C1_UnauthorizedIs403 ==
    \A r \in Reqs :
        loc[r].ok = "false" =>
            /\ pc[r] = "done"
            /\ Answered(r, 403, EmptyBody)
            /\ log[r] = <<Call("check_acl"), Ret("check_acl")>>
            /\ co[r] = NoCheckout
            /\ loc[r] = [NoLoc EXCEPT !.ok = "false"]

C1_Witness ==
    \E r1, r2 \in Reqs :
        /\ req[r1].kind = "create_cluster" /\ loc[r1].ok = "false"
        /\ req[r2].kind = "delete_sealed_secret" /\ loc[r2].ok = "false"

(* C2: in create_cluster the collaborator calls are ordered: create_repo has
   returned before create_object or a put_config starts, both put_config calls
   have returned before Checkout.init starts, and init and every commit have
   returned before push starts. *)
C2_CreateOrder ==
    \A r \in Reqs :
        req[r].kind = "create_cluster" =>
            /\ Precedes(r, Ret("check_acl"), Call("create_repo"))
            /\ Precedes(r, Ret("create_repo"), Call("res_json"))
            /\ Precedes(r, Ret("res_json"), Call("create_object"))
            /\ Precedes(r, Ret("create_object"), Call("put_config_info"))
            /\ Precedes(r, Ret("put_config_info"), Call("put_config_cluster"))
            /\ Precedes(r, Ret("put_config_info"), Call("init"))
            /\ Precedes(r, Ret("put_config_cluster"), Call("init"))
            /\ Precedes(r, Ret("init"), Call("write_file"))
            /\ Precedes(r, Ret("write_file"), Call("commit"))
            /\ Precedes(r, Ret("init"), Call("push"))
            /\ Precedes(r, Ret("commit"), Call("push"))
            /\ \A j \in DOMAIN log[r] :
                 log[r][j] = Call("push") =>
                    /\ Cardinality({i \in 1..j : log[r][i] = Call("commit")})
                         = Cardinality({i \in 1..j : log[r][i] = Ret("commit")})
                    /\ \A i \in DOMAIN log[r] : i > j => log[r][i][1] = "push"

C2_Witness ==
    \E r \in Reqs : req[r].kind = "create_cluster" /\ out[r].status = 201
                    /\ Has(r, Ret("push"))

(* C3: in cluster_status a checkout acquired by clone is disposed exactly once
   on every exit path, the throwing ones included. *)
C3_DisposedOnEveryExit ==
    \A r \in Reqs :
        (pc[r] = "done" /\ Has(r, Ret("clone"))) => co[r].disposed = 1

(* C4: an authorized create_cluster with a non-empty sources list, none of
   whose collaborator calls fails, answers 201 with the minted uuid and the
   created repository's url, and has pushed a tree holding the README, the
   op1flux-secrets sealed secret and a GitRepository/Kustomization pair per
   source, all in flux-system. *)
C4_CreateSucceeds ==
    \A r \in Reqs :
        ( /\ req[r].kind = "create_cluster" /\ pc[r] = "done"
          /\ loc[r].ok = "true" /\ loc[r].git_status = 200
          /\ req[r].hasSources /\ req[r].sources # <<>>
          /\ NoCollaboratorFailed(r) ) =>
            /\ loc[r].uuid # 0
            /\ Answered(r, 201, CreatedBody(loc[r].uuid, loc[r].repo))
            /\ Has(r, Ret("push"))
            /\ "README.md" \in remote[loc[r].repo].files
            /\ [kind |-> "SealedSecret", ns |-> FLUX_NS, name |-> "op1flux-secrets"]
                 \in remote[loc[r].repo].manifests
            /\ \A i \in DOMAIN req[r].sources :
                 \A k \in {"GitRepository", "Kustomization"} :
                    [kind |-> k, ns |-> FLUX_NS, name |-> replace(req[r].sources[i], "/", ".")]
                      \in remote[loc[r].repo].manifests

(* C5: over a tree whose manifests are well-formed, the scan answers ready =
   true exactly when every GitRepository naming a secret has a SealedSecret of
   that name whose encryptedData holds bearerToken, or username and password. *)
WellFormed(t) ==
    /\ \A g \in GitNames : t.git[g] # "absent"
    /\ \A n \in SecretNames : t.sealed[n].shape \in {"absent", "ok"}

AllSourcesHaveCredentials(t) ==
    \A g \in GitNames :
        t.git[g] \in SecretNames =>
            /\ t.sealed[t.git[g]].shape = "ok"
            /\ \/ "bearerToken" \in t.sealed[t.git[g]].keys
               \/ {"username", "password"} \subseteq t.sealed[t.git[g]].keys

ScanEnded(r) == pc[r] = "done" /\ Has(r, Ret("clone")) /\ NoCollaboratorFailed(r)

C5_ReadyIffCredentials ==
    \A r \in Reqs :
        (ScanEnded(r) /\ WellFormed(co[r].tree)) =>
            Answered(r, 200, ReadyBody(AllSourcesHaveCredentials(co[r].tree)))

C5_Witness ==
    \E r \in Reqs :
        /\ ScanEnded(r) /\ WellFormed(co[r].tree)
        /\ co[r].tree.git[1] = "s1" /\ co[r].tree.git[2] = "s2"
        /\ co[r].tree.sealed["s1"] = [shape |-> "ok", keys |-> {"bearerToken"}]
        /\ co[r].tree.sealed["s2"] = [shape |-> "ok", keys |-> {"username"}]
        /\ out[r].body = ReadyBody(FALSE)

(* C6: an authorized cluster_status for an id without a Cluster config record
   answers 404 and never calls clone. *)
C6_NoConfigIs404 ==
    \A r \in Reqs :
        loc[r].info = "absent" =>
            /\ req[r].kind = "cluster_status" /\ loc[r].ok = "true"
            /\ pc[r] = "done"
            /\ Answered(r, 404, EmptyBody)
            /\ ~Has(r, Call("clone"))
            /\ co[r] = NoCheckout

C6_Witness ==
    \E r \in Reqs : loc[r].info = "absent" /\ out[r].status = 404

(* C7: a scan that meets malformed data (a listed GitRepository reading back
   absent, a referenced SealedSecret without spec or without encryptedData)
   answers ready = false and does not throw. *)
MeetsMalformed(t) ==
    \/ \E g \in GitNames : t.git[g] = "absent"
    \/ \E g \in GitNames : /\ t.git[g] \in SecretNames
                           /\ t.sealed[t.git[g]].shape \in {"nospec", "noenc"}

C7_MalformedIsNotReady ==
    \A r \in Reqs :
        (ScanEnded(r) /\ MeetsMalformed(co[r].tree)) =>
            /\ out[r].nexts = 0
            /\ Answered(r, 200, ReadyBody(FALSE))

(* C8: cluster_status invokes no write operation, and two cluster_status
   answers for the same cluster with no mutation of the registry or of a
   repository since the earlier request arrived carry the same ready. *)
WriteOps == {"write_file", "write_manifest", "commit", "push", "put_config_info",
             "put_config_cluster", "create_object", "create_repo"}

C8_StatusIsPureRead ==
    /\ \A r \in Reqs :
         req[r].kind = "cluster_status" =>
            \A i \in DOMAIN log[r] : log[r][i][1] \notin WriteOps
    /\ \A r1, r2 \in Reqs :
         ( /\ req[r1].kind = "cluster_status" /\ req[r2].kind = "cluster_status"
           /\ req[r1].cluster = req[r2].cluster
           /\ out[r1].status = 200 /\ out[r2].status = 200
           /\ stable[r1] /\ stable[r2] ) =>
            out[r1].body.ready = out[r2].body.ready

C8_Witness ==
    \E r1, r2 \in Reqs :
        /\ r1 # r2
        /\ req[r1].kind = "cluster_status" /\ req[r2].kind = "cluster_status"
        /\ req[r1].cluster = req[r2].cluster
        /\ out[r1].status = 200 /\ out[r2].status = 200
        /\ stable[r1] /\ stable[r2]
        /\ out[r1].body = ReadyBody(FALSE) /\ Has(r1, Ret("read_sealed"))

(* C9: seal_secret and delete_sealed_secret call the sealer only after
   check_acl returned true, exactly once per authorized request, and answer
   with the status code the sealer returned. *)
SealerOp(r) == IF req[r].kind = "seal_secret" THEN "seal_secret" ELSE "delete_secret"

C9_SealerRelayed ==
    \A r \in Reqs :
        req[r].kind \in {"seal_secret", "delete_sealed_secret"} =>
            /\ Has(r, Call(SealerOp(r))) => loc[r].ok = "true"
            /\ Precedes(r, Ret("check_acl"), Call(SealerOp(r)))
            /\ \A i \in DOMAIN log[r] : log[r][i][1] \in {"check_acl", SealerOp(r)}
            /\ (pc[r] = "done" /\ loc[r].ok = "true") => Count(r, Call(SealerOp(r))) = 1
            /\ Has(r, Ret(SealerOp(r))) =>
                 /\ loc[r].st \in SealerCodes
                 /\ Answered(r, loc[r].st, EmptyBody)

C9_Witness ==
    \E r1, r2 \in Reqs :
        /\ req[r1].kind = "seal_secret" /\ loc[r1].st = 500 /\ out[r1].status = 500
        /\ req[r2].kind = "delete_sealed_secret" /\ loc[r2].st = 404 /\ out[r2].status = 404

(* C10: when the Git service answers the repository creation with anything
   but 200, create_cluster throws a value carrying that status and makes no
   later call: no identity, no config record, no checkout, no push; when it
   answers 200 and its body is read, the next call is the registry's
   create_object. *)
C10_RepoCreationFailed ==
    \A r \in Reqs :
        /\ loc[r].git_status \notin {0, 200} =>
             /\ pc[r] = "done"
             /\ out[r] = [NoOut EXCEPT !.err = GitCreateErr(loc[r].git_status), !.nexts = 1]
             /\ log[r] = <<Call("check_acl"), Ret("check_acl"),
                           Call("create_repo"), Ret("create_repo")>>
             /\ loc[r].uuid = 0
             /\ co[r] = NoCheckout
        /\ loc[r].git_status = 200 =>
             /\ Len(log[r]) >= 5
             /\ SubSeq(log[r], 3, 5) = <<Call("create_repo"), Ret("create_repo"),
                                         Call("res_json")>>
             /\ Has(r, Ret("res_json")) =>
                  /\ Len(log[r]) >= 7
                  /\ SubSeq(log[r], 6, 7) = <<Ret("res_json"), Call("create_object")>>

C10_Witness ==
    \E r1, r2 \in Reqs :
        /\ loc[r1].git_status = 409 /\ out[r1].err = GitCreateErr(409)
        /\ loc[r2].git_status = 200 /\ loc[r2].uuid # 0

(* C11: a create_cluster that failed after earlier steps succeeded keeps the
   effects of those steps (the created repository, the minted identity, the
   config records written so far), has invoked no step twice, has passed its
   error to next exactly once and has sent no response, so no 201. *)
CreateFailed(r) == req[r].kind = "create_cluster" /\ out[r].nexts > 0

C11_FailureLeavesEffects ==
    \A r \in Reqs :
        CreateFailed(r) =>
            /\ pc[r] = "done"
            /\ out[r].nexts = 1 /\ out[r].err # NoErr
            /\ out[r].sent = 0 /\ out[r].status = 0 /\ out[r].body = NoBody
            /\ \A i, j \in DOMAIN log[r] :
                 (log[r][i][2] = "call" /\ log[r][i] = log[r][j]) => i = j
            /\ loc[r].git_status = 200 =>
                 /\ RepoPath(req[r].name) \in hosted
                 /\ RepoUrl(RepoPath(req[r].name)) \in DOMAIN remote
            /\ Has(r, Ret("create_object")) =>
                 /\ loc[r].uuid # 0
                 /\ [uuid |-> loc[r].uuid, class |-> "Cluster"] \in objects
            /\ Has(r, Ret("put_config_info")) =>
                 /\ <<"Info", loc[r].uuid>> \in DOMAIN configs
                 /\ configs[<<"Info", loc[r].uuid>>] = [name |-> req[r].name]
            /\ Has(r, Ret("put_config_cluster")) =>
                 /\ <<"Cluster", loc[r].uuid>> \in DOMAIN configs
                 /\ configs[<<"Cluster", loc[r].uuid>>].flux = loc[r].repo

C11_Witness ==
    \E r, q \in Reqs :
        /\ CreateFailed(r) /\ Has(r, Thr("push"))
        /\ <<"Cluster", loc[r].uuid>> \in DOMAIN configs
        /\ req[q].kind = "create_cluster" /\ out[q].status = 201

(* C12: within one request no collaborator call starts before the previous
   call of that request has resolved, so at most one call of a request is in
   flight; for create_cluster and for the readiness scan, its GitRepository
   reads and its SealedSecret reads included. *)
Calls(r, n) == Cardinality({i \in 1..n : log[r][i][2] = "call"})
Resolved(r, n) == Cardinality({i \in 1..n : log[r][i][2] # "call"})
InFlight(r) == Calls(r, Len(log[r])) - Resolved(r, Len(log[r]))

C12_StrictlySequential ==
    \A r \in Reqs :
        /\ InFlight(r) <= 1
        /\ \A j \in DOMAIN log[r] :
             log[r][j][2] = "call" => Calls(r, j - 1) = Resolved(r, j - 1)

(* C12 as amended: the calls of create_cluster and of the two sealer routes
   are strictly sequential, and so is every call of cluster_status but the
   GitRepository reads: those are started together, one per listed manifest,
   once list_manifests has resolved, and the first SealedSecret read starts
   only after every one of them has resolved. *)
C12_SequentialButGitReads ==
    \A r \in Reqs :
        /\ req[r].kind # "cluster_status" =>
             /\ InFlight(r) <= 1
             /\ \A j \in DOMAIN log[r] :
                  log[r][j][2] = "call" => Calls(r, j - 1) = Resolved(r, j - 1)
        /\ req[r].kind = "cluster_status" =>
             /\ InFlight(r) <= IF Has(r, Call("read_manifest")) THEN Len(loc[r].repos) ELSE 1
             /\ \A j \in DOMAIN log[r] :
                  (log[r][j][2] = "call" /\ log[r][j] # Call("read_manifest")) =>
                      Calls(r, j - 1) = Resolved(r, j - 1)
             /\ \A j \in DOMAIN log[r] :
                  log[r][j] = Call("read_manifest") =>
                      /\ Count(r, Call("read_manifest")) = Len(loc[r].repos)
                      /\ \E k \in 1..(j - 1) :
                            /\ log[r][k] = Ret("list_manifests")
                            /\ Calls(r, k) = Resolved(r, k)
                            /\ \A i \in (k + 1)..j : log[r][i] = Call("read_manifest")

C12_Witness ==
    \E r, q \in Reqs :
        /\ req[r].kind = "cluster_status" /\ Len(loc[r].repos) = 2
        /\ Has(r, Ret("read_sealed")) /\ out[r].body = ReadyBody(TRUE)
        /\ req[q].kind = "create_cluster" /\ Has(q, Ret("push"))

(* C13: for every entry of sources, create_cluster writes exactly one
   GitRepository and one Kustomization manifest in flux-system, both named by
   the source with every "/" replaced by ".", the Kustomization referring to
   the GitRepository of that name. *)
RECURSIVE ReplaceEvery(_, _, _)
ReplaceEvery(source, a, b) ==
    IF source = <<>> THEN <<>>
    ELSE <<IF Head(source) = a THEN b ELSE Head(source)>> \o ReplaceEvery(Tail(source), a, b)

CreateRanThrough(r) ==
    /\ req[r].kind = "create_cluster" /\ pc[r] = "done"
    /\ loc[r].ok = "true" /\ loc[r].git_status = 200
    /\ NoCollaboratorFailed(r)

C13_ManifestPairPerSource ==
    \A r \in Reqs :
        CreateRanThrough(r) =>
            \A i \in DOMAIN req[r].sources :
                LET name == ReplaceEvery(req[r].sources[i], "/", ".") IN
                /\ Cardinality({m \in co[r].tree.manifests :
                        m.kind = "GitRepository" /\ m.ns = FLUX_NS /\ m.name = name}) = 1
                /\ Cardinality({m \in co[r].tree.manifests :
                        m.kind = "Kustomization" /\ m.ns = FLUX_NS /\ m.name = name}) = 1

(* C14: every create_cluster run that reaches the push has made exactly two
   commits before it: the README commit, then one commit holding the
   op1flux-secrets sealed secret and all source manifests; with a non-empty,
   an empty or an absent sources list alike. *)
SealedSecretManifest == [kind |-> "SealedSecret", ns |-> FLUX_NS, name |-> "op1flux-secrets"]

ReadmeFirst(r) ==
    /\ Len(co[r].commits) >= 1
    /\ co[r].commits[1].msg = "Add README."
    /\ co[r].commits[1].tree.files = {"README.md"}
    /\ SealedSecretManifest \notin co[r].commits[1].tree.manifests

LinksSecond(r) ==
    /\ Len(co[r].commits) = 2
    /\ SealedSecretManifest \in co[r].commits[2].tree.manifests
    /\ \A i \in DOMAIN req[r].sources :
         \A k \in {"GitRepository", "Kustomization"} :
            \E m \in co[r].commits[2].tree.manifests : m.kind = k /\ m.ns = FLUX_NS

MintedBy(u) == {r \in Reqs : req[r].kind = "create_cluster" /\ loc[r].uuid = u}

C15_ClusterImpliesInfo ==
    \A u \in Uuids :
        <<"Cluster", u>> \in DOMAIN configs =>
            /\ <<"Info", u>> \in DOMAIN configs
            /\ [uuid |-> u, class |-> "Cluster"] \in objects
            /\ IF u = SeedUuid
               THEN /\ MintedBy(u) = {}
                    /\ configs[<<"Cluster", u>>].flux = RepoUrl(RepoPath(SeedName))
               ELSE /\ Cardinality(MintedBy(u)) = 1
                    /\ \A r \in MintedBy(u) :
                         /\ loc[r].git_status = 200
                         /\ RepoPath(req[r].name) \in hosted
                         /\ loc[r].repo = RepoUrl(RepoPath(req[r].name))
                         /\ configs[<<"Cluster", u>>].flux = loc[r].repo
                         /\ configs[<<"Info", u>>] = [name |-> req[r].name]
                         /\ Precedes(r, Ret("put_config_info"), Call("put_config_cluster"))

C15_Witness ==
    \E r, q \in Reqs :
        /\ req[r].kind = "create_cluster" /\ pc[r] = "done"
        /\ Has(r, Thr("put_config_cluster"))
        /\ <<"Info", loc[r].uuid>> \in DOMAIN configs
        /\ <<"Cluster", loc[r].uuid>> \notin DOMAIN configs
        /\ req[q].kind = "create_cluster"
        /\ <<"Cluster", loc[q].uuid>> \in DOMAIN configs

(* C16: two create_cluster requests with different names, under any
   interleaving of their calls, do not affect each other: each makes its calls
   in its own order, one at a time; each mints its own identity and creates
   its own repository; a 201 carries that identity and that repository's url;
   and the Cluster record of each identity holds the repository url, the
   namespace and the sealing certificate of the request that minted it. *)
CallOps(r) ==
    LET calls == SelectSeq(log[r], LAMBDA e : e[2] = "call")
    IN  [i \in DOMAIN calls |-> calls[i][1]]

CreateSteps(r) ==
    <<"check_acl", "create_repo", "res_json", "create_object", "put_config_info",
      "put_config_cluster", "init", "write_file", "commit",
      IF req[r].hasSources THEN "service_url" ELSE "push">>

OwnRecord(r) ==
    [flux |-> RepoUrl(RepoPath(req[r].name)),
     namespace |-> IF req[r].namespace = "absent" THEN "fplus-edge" ELSE req[r].namespace,
     kubeseal_cert |-> req[r].kubeseal_cert]

KeepsToItself(r) ==
    /\ Len(CallOps(r)) <= Len(CreateSteps(r))
    /\ CallOps(r) = SubSeq(CreateSteps(r), 1, Len(CallOps(r)))
    /\ InFlight(r) <= 1
    /\ out[r].status # 0 => out[r].status \in {201, 403}
    /\ out[r].status = 201 =>
         /\ loc[r].uuid # 0 /\ loc[r].uuid # SeedUuid
         /\ Answered(r, 201, CreatedBody(loc[r].uuid, RepoUrl(RepoPath(req[r].name))))
         /\ Has(r, Ret("push"))
    /\ Has(r, Ret("put_config_info")) =>
         /\ <<"Info", loc[r].uuid>> \in DOMAIN configs
         /\ configs[<<"Info", loc[r].uuid>>] = [name |-> req[r].name]
    /\ Has(r, Ret("put_config_cluster")) =>
         /\ <<"Cluster", loc[r].uuid>> \in DOMAIN configs
         /\ configs[<<"Cluster", loc[r].uuid>>] = OwnRecord(r)
    /\ Has(r, Ret("push")) => remote[RepoUrl(RepoPath(req[r].name))] = ReadmeTree

C16_RequestsIsolated ==
    \A r1, r2 \in Reqs :
        ( /\ r1 # r2
          /\ req[r1].kind = "create_cluster" /\ req[r2].kind = "create_cluster"
          /\ req[r1].name # req[r2].name ) =>
            /\ KeepsToItself(r1)
            /\ KeepsToItself(r2)
            /\ (loc[r1].uuid # 0 /\ loc[r2].uuid # 0) => loc[r1].uuid # loc[r2].uuid
            /\ (loc[r1].repo # NoUrl /\ loc[r2].repo # NoUrl) => loc[r1].repo # loc[r2].repo

C16_Witness ==
    \E r1, r2 \in Reqs :
        /\ req[r1].kind = "create_cluster" /\ req[r2].kind = "create_cluster"
        /\ req[r1].name # req[r2].name
        /\ req[r1].kubeseal_cert # req[r2].kubeseal_cert
        /\ req[r1].namespace # req[r2].namespace
        /\ out[r1].status = 201 /\ pc[r2] = "push"
        /\ loc[r2].uuid < loc[r1].uuid

(* C17: when create_cluster has sent 201, the repository exists, the identity
   of the response has its Info and its Cluster record, and the push has
   resolved with the commits on the remote; no 201 is sent while a call of
   the request is still to resolve. *)
C17_CreatedMeansComplete ==
    \A r \in Reqs :
        (req[r].kind = "create_cluster" /\ out[r].status = 201) =>
            /\ pc[r] = "done" /\ out[r].sent = 1 /\ out[r].nexts = 0
            /\ out[r].body.kind = "json"
            /\ out[r].body.flux \in DOMAIN remote
            /\ SubSeq(out[r].body.flux, 2, Len(out[r].body.flux)) \in hosted
            /\ <<"Info", out[r].body.uuid>> \in DOMAIN configs
            /\ <<"Cluster", out[r].body.uuid>> \in DOMAIN configs
            /\ configs[<<"Cluster", out[r].body.uuid>>].flux = out[r].body.flux
            /\ log[r][Len(log[r])] = Ret("push")
            /\ Count(r, Call("push")) = 1
            /\ InFlight(r) = 0
            /\ "README.md" \in remote[out[r].body.flux].files

C17_Witness ==
    \E r, q \in Reqs :
        /\ req[r].kind = "create_cluster" /\ out[r].status = 201
        /\ log[r][Len(log[r])] = Ret("push")
        /\ req[q].kind = "create_cluster" /\ pc[q] = "push" /\ out[q].status = 0

(* C18: every request to one of the four wrapped handlers ends in exactly one
   outcome, whatever its collaborators do: one response sent, or the error
   passed to next once; never both, never twice, and never neither once the
   handler has no call left to resolve. *)
C18_ExactlyOneOutcome ==
    \A r \in Reqs :
        /\ out[r].sent \in {0, 1} /\ out[r].nexts \in {0, 1}
        /\ out[r].sent + out[r].nexts <= 1
        /\ (pc[r] = "done") <=> (out[r].sent + out[r].nexts = 1)
        /\ (pc[r] # "idle" /\ InFlight(r) = 0) => out[r].sent + out[r].nexts = 1
        /\ out[r].sent = 1 => (out[r].status # 0 /\ out[r].err = NoErr)
        /\ out[r].nexts = 1 => (out[r].status = 0 /\ out[r].body = NoBody /\ out[r].err # NoErr)

C18_Witness ==
    \E r1, r2 \in Reqs :
        /\ req[r1].kind = "cluster_status" /\ out[r1].sent = 1 /\ out[r1].status = 200
        /\ req[r2].kind = "create_cluster" /\ out[r2].nexts = 1 /\ out[r2].err = TypeError

====
